---- MODULE Spec2Model ----
(***************************************************************************)
(* Model of the Hyperliquid spot order-book collector.                     *)
(*   mode "A" = src/nosave.ts  (latest-value cache in memory)              *)
(*   mode "B" = src/yessave.ts (concurrent file persistence, saveQueue)    *)
(* Every event-loop callback of the program (socket open/message/close,    *)
(* timers, SIGINT, completion of an asynchronous write) is one action:     *)
(* JavaScript runs a callback to completion, so a callback is atomic.      *)
(*                                                                         *)
(* Numbers are decimal fractions (an integer and its number of decimals);  *)
(* binary floating-point rounding error is not modelled.  The wall-clock   *)
(* timestamp of a record (lastUpdate, level.timestamp) is left out.        *)
(***************************************************************************)
EXTENDS Integers, Sequences, FiniteSets, TLC

\* ------------------------------------------------------------------ bounds
MaxConns == 2
\* calls of connectWebSocket in one behaviour

MaxMsgs == 2
\* inbound frames dispatched in one behaviour

MaxFetch == 1
\* mid-price refreshes started by the interval timers in one behaviour

MaxBurst == 102
\* frames dispatched in one burst of SpecBurst

MaxBooks == 1
\* snapshots handed to the transformer in one behaviour of SpecTransform

MaxLevels == 11
\* levels of the longest side of a snapshot of SpecTransform

\* ------------------------------------------------------- program constants
HighWater == 100
\* saveQueue.size > 100

TopN == 10
\* Math.min(10, bids.length)

\* ---------------------------------------------------------------- helpers
SeqToSet(s) == {s[i] : i \in 1..Len(s)}

Min2(a, b) == IF a < b THEN a ELSE b

\* ------------------------------------------------------------- JS values
\* A level field (px, sz), a parsed number or a formatted number is a record
\* [k, n, d]:  k = "dec"  the decimal string of n * 10^-d written with d
\*                         digits after the point ("2.00" is [dec, 200, 2])
\*             k = "text" a string that is no number ("abc", "NaN")
\*             k = "undefined" the field is absent
\*             k = "num"  the JS number n * 10^-d, k = "NaN" the JS number NaN
DecE(n, d) == [k |-> "dec", n |-> n, d |-> d]

\* a string with two decimals, as the feed writes the prices of the model
Dec(n) == DecE(n, 2)

\* the string "0"
Zero == DecE(0, 0)

Text == [k |-> "text", n |-> 0, d |-> 0]

Undef == [k |-> "undefined", n |-> 0, d |-> 0]

NumE(n, d) == [k |-> "num", n |-> n, d |-> d]

\* an integer JS number
Num(n) == NumE(n, 0)

NaN == [k |-> "NaN", n |-> 0, d |-> 0]

RECURSIVE Pow10(_)
Pow10(e) == IF e = 0 THEN 1 ELSE 10 * Pow10(e - 1)

Max2(a, b) == IF a > b THEN a ELSE b

\* the integer that stands for the number x when written with d decimals (d >= x.d)
Scaled(x, d) == x.n * Pow10(d - x.d)

\* parseFloat(v): the number a decimal string denotes, NaN for anything else
ParseFloat(v) == IF v.k = "dec" THEN NumE(v.n, v.d) ELSE NaN

\* p / q rounded to the nearest integer, halves away from zero (q > 0)
RoundDiv(p, q) ==
  IF p >= 0 THEN (2 * p + q) \div (2 * q) ELSE -((2 * (-p) + q) \div (2 * q))

\* x.toFixed(digits): "NaN" for NaN; otherwise the number written with
\* `digits` decimals, padded with zeros or rounded to the nearest
ToFixed(x, digits) ==
  IF x.k = "NaN" THEN [k |-> "text", n |-> 0, d |-> digits]
  ELSE IF digits >= x.d THEN DecE(Scaled(x, digits), digits)
  ELSE DecE(RoundDiv(x.n, Pow10(x.d - digits)), digits)

\* a - b and a + b of JS numbers (NaN is contagious)
NumSub(a, b) ==
  IF a.k = "NaN" \/ b.k = "NaN" THEN NaN
  ELSE NumE(Scaled(a, Max2(a.d, b.d)) - Scaled(b, Max2(a.d, b.d)), Max2(a.d, b.d))

NumAdd(a, b) ==
  IF a.k = "NaN" \/ b.k = "NaN" THEN NaN
  ELSE NumE(Scaled(a, Max2(a.d, b.d)) + Scaled(b, Max2(a.d, b.d)), Max2(a.d, b.d))

\* a > 0 of a JS number (false for NaN)
Positive(a) == a.k = "num" /\ a.n > 0

\* a faulty percentage: the quotient is not multiplied by 100
SpreadFraction(spread, bestBid) ==
  IF spread.k = "NaN" THEN [k |-> "text", n |-> 0, d |-> 4]
  ELSE LET e == Max2(spread.d, bestBid.d)
       IN DecE(RoundDiv(Scaled(spread, e) * 10000, Scaled(bestBid, e)), 4)

\* ((spread / bestBid) * 100).toFixed(4), bestBid > 0: the quotient in units
\* of 0.0001, rounded to the nearest.  The prices of the model stay below
\* 10.00 so that the products fit TLC's 32-bit integers.
SpreadPct(spread, bestBid) ==
  IF spread.k = "NaN" THEN [k |-> "text", n |-> 0, d |-> 4]
  ELSE LET e == Max2(spread.d, bestBid.d)
       IN DecE(RoundDiv(Scaled(spread, e) * 1000000, Scaled(bestBid, e)), 4)

\* ------------------------------------------------------------ symbol names
\* A symbol is the sequence of its characters, so that startsWith is computed.
At1 == <<"@", "1">>

At2 == <<"@", "2">>

Btc == <<"B", "T", "C">>

StartsWithAt(coin) == Len(coin) > 0 /\ coin[1] = "@"

\* ------------------------------------------------------ startup metadata
\* What the spotMeta request can return: the token table and the pair
\* universe (a pair names its two tokens by index), or a failed request.
TokenTable == (0 :> "USDC") @@ (1 :> "HYPE")

FallbackTokenName == (0 :> "Token0") @@ (1 :> "Token1") @@ (2 :> "Token2")

Pair(name, tokens) == [name |-> name, tokens |-> tokens]

MetaFailed == [ok |-> FALSE, universe |-> <<>>]

MetaResponses ==
  { MetaFailed,
    [ok |-> TRUE, universe |-> <<>>],
    [ok |-> TRUE, universe |-> <<Pair(Btc, <<1, 0>>)>>],
    [ok |-> TRUE, universe |-> <<Pair(At1, <<1, 0>>)>>],
    [ok |-> TRUE, universe |-> <<Pair(Btc, <<1, 0>>), Pair(At1, <<1, 0>>),
                                 Pair(At2, <<2, 0>>)>>] }

\* tokenMap.get(tokenIndex) || `Token${tokenIndex}`
TokenName(idx) ==
  IF idx \in DOMAIN TokenTable THEN TokenTable[idx] ELSE FallbackTokenName[idx]

\* the pairs of the universe whose name starts with '@', in universe order
RECURSIVE SpotCoinsOf(_)
SpotCoinsOf(universe) ==
  IF universe = <<>> THEN <<>>
  ELSE LET rest == SpotCoinsOf(Tail(universe))
       IN IF StartsWithAt(Head(universe).name)
          THEN <<Head(universe).name>> \o rest ELSE rest

\* spotSymbolMapping after the forEach: '@' pairs with exactly two tokens
SymbolMappingOf(universe) ==
  LET idx == {i \in 1..Len(universe) :
                StartsWithAt(universe[i].name) /\ Len(universe[i].tokens) = 2}
      names == {universe[i].name : i \in idx}
      last(nm) == CHOOSE i \in idx : universe[i].name = nm
                     /\ \A j \in idx : universe[j].name = nm => j <= i
  IN [nm \in names |->
        <<TokenName(universe[last(nm)].tokens[1]),
          TokenName(universe[last(nm)].tokens[2])>>]

\* ------------------------------------------------------- inbound frames
Level(px, sz) == [px |-> px, sz |-> sz]

\* message.data of an l2Book frame: coin (or no coin field) and levels (or no
\* levels field); levels is the list of sides, a side the list of its levels
L2Data(hasCoin, coin, hasLevels, levels) ==
  [hasCoin |-> hasCoin, coin |-> coin, hasLevels |-> hasLevels, levels |-> levels]

NoData == L2Data(FALSE, <<>>, FALSE, <<>>)

\* an inbound frame: text that JSON.parse accepts or not, its channel, its data
Frame(parses, channel, hasData, data) ==
  [parses |-> parses, channel |-> channel, hasData |-> hasData, data |-> data]

BookA ==
  << <<Level(Dec(200), Dec(200)), Level(Dec(199), Dec(300))>>,
     <<Level(Dec(201), Dec(100)), Level(Dec(202), Dec(400))>> >>

BookB == << <<Level(Dec(198), Dec(100))>>, <<>> >>

BookNoPx == << <<Level(Undef, Dec(100))>>, <<Level(Dec(201), Dec(100))>> >>

BookText == << <<Level(Dec(198), Dec(100))>>, <<Level(Text, Dec(100))>> >>

FGarbage == Frame(FALSE, "", FALSE, NoData)

FTrades == Frame(TRUE, "trades", TRUE, L2Data(TRUE, At1, TRUE, BookA))

FNoCoin == Frame(TRUE, "l2Book", TRUE, L2Data(FALSE, <<>>, TRUE, BookA))

FBtc == Frame(TRUE, "l2Book", TRUE, L2Data(TRUE, Btc, TRUE, BookA))

FNoLevels == Frame(TRUE, "l2Book", TRUE, L2Data(TRUE, At1, FALSE, <<>>))

FNoPx == Frame(TRUE, "l2Book", TRUE, L2Data(TRUE, At1, TRUE, BookNoPx))

FText == Frame(TRUE, "l2Book", TRUE, L2Data(TRUE, At1, TRUE, BookText))

F1A == Frame(TRUE, "l2Book", TRUE, L2Data(TRUE, At1, TRUE, BookA))

F1B == Frame(TRUE, "l2Book", TRUE, L2Data(TRUE, At1, TRUE, BookB))

F2A == Frame(TRUE, "l2Book", TRUE, L2Data(TRUE, At2, TRUE, BookA))

\* a side of n levels that is not sorted by price and whose sizes all differ
LongSide(n) ==
  [i \in 1..n |-> Level(Dec(500 + 10 * ((i * 7) % 5) - i), Dec(10 * i))]

\* the sides of the snapshots of SpecTransform: empty, one level, sizes of
\* five decimals in no price order, a zero price and a zero size, a negative
\* price and a negative size, exactly TopN levels and more than TopN levels
Sides ==
  { <<>>,
    <<Level(Dec(300), Dec(100))>>,
    <<Level(Dec(150), DecE(1, 5)), Level(Dec(300), DecE(3, 5)),
      Level(Dec(200), DecE(4, 5))>>,
    <<Level(Dec(0), Dec(0)), Level(Dec(100), Dec(250))>>,
    <<Level(Dec(-100), Dec(-100)), Level(Dec(302), Dec(50))>>,
    LongSide(TopN),
    LongSide(MaxLevels) }

\* the frames of SpecTransform: l2Book snapshots of "@1" with the sides of Sides
TransformFrames ==
  {Frame(TRUE, "l2Book", TRUE, L2Data(TRUE, At1, TRUE, <<b, a>>)) : b, a \in Sides}

\* the frames of the dispatch specification: every way through the handler
Frames == {FGarbage, FTrades, FNoCoin, FBtc, FNoLevels, FNoPx, FText, F1A, F1B, F2A}

\* the frames of the full specification: one that is dropped, one that is stored
LifeFrames == {FBtc, F1A}

\* what the allMids request can return
MidsEmpty == [c \in {} |-> Dec(0)]

MidsA == (At1 :> Dec(200))

\* ------------------------------------------------- processOrderbookData
\* a faulty running sum: the size of the level alone
CumulativeLast(side, i) == IF i = 0 THEN Num(0) ELSE ParseFloat(side[i].sz)

\* the running sum of parseFloat(size) over the first i levels of a side
RECURSIVE Cumulative(_, _)
Cumulative(side, i) ==
  IF i = 0 THEN Num(0) ELSE NumAdd(Cumulative(side, i - 1), ParseFloat(side[i].sz))

\* a faulty selection: every level of the side is kept
TopLevelsAll(side) ==
  [i \in 1..Len(side) |->
     [level |-> i, price |-> side[i].px, size |-> side[i].sz,
      cumulative |-> ToFixed(Cumulative(side, i), 4)]]

\* slice(0, Math.min(10, length)).map(...): rank, price, size, running sum
TopLevels(side) ==
  [i \in 1..Min2(TopN, Len(side)) |->
     [level |-> i, price |-> side[i].px, size |-> side[i].sz,
      cumulative |-> ToFixed(Cumulative(side, i), 4)]]

Null == [ok |-> FALSE]

\* the record, or Null when the body throws (l2Data.levels missing or short)
ProcessOrderbookData(coin, l2Data, mapping, mids) ==
  IF ~l2Data.hasLevels \/ Len(l2Data.levels) < 2 THEN Null
  ELSE
    LET bids == l2Data.levels[1]
        asks == l2Data.levels[2]
        bestBid == IF Len(bids) > 0 THEN ParseFloat(bids[1].px) ELSE Num(0)
        bestAsk == IF Len(asks) > 0 THEN ParseFloat(asks[1].px) ELSE Num(0)
        spread == NumSub(bestAsk, bestBid)
        spreadPercentage ==
          IF Positive(bestBid) THEN SpreadPct(spread, bestBid) ELSE Zero
    IN [ok |-> TRUE,
        symbol |-> coin,
        displaySymbol |-> IF coin \in DOMAIN mapping THEN mapping[coin] ELSE coin,
        midPrice |-> IF coin \in DOMAIN mids THEN mids[coin] ELSE Zero,
        spread |-> ToFixed(spread, 8),
        spreadPercentage |-> <<spreadPercentage, "%">>,
        bids |-> TopLevels(bids),
        asks |-> TopLevels(asks)]

\* ------------------------------------------------------------------ state
VARIABLES
  mode,               \* "A" (nosave.ts) or "B" (yessave.ts)
  phase,              \* run(): "makeDir" (mode B), "fetchMeta", "loadMids",
                      \*   "streaming", "halted" (run returned), "fatal" (exit(1))
  exited,             \* process.exit(0) was called
  isRunning,          \* let isRunning
  spotCoins,          \* the list initSpotMetadata returned
  spotSymbolMapping,  \* Map symbol -> display name
  allMidsCache,       \* symbol -> mid price string
  midFetches,         \* updateMidPrices() calls of the timers still in flight
  ws,                 \* per connectWebSocket call: readyState of its socket
  sent,               \* per call: the requests sent on the socket
  reconnectTimeout,   \* per call: "unset", "pending", "fired", "cleared"
  statsInterval,      \* per call: "active", "cleared"
  midPriceInterval,   \* per call: "active", "cleared"
  processCount,       \* per call: let processCount
  updateCount,        \* per call: let updateCount (mode B)
  updatedCoins,       \* per call: Set of display symbols (mode B)
  latestOrderbooks,   \* mode A: Map symbol -> CoinOrderbook
  saveQueue,          \* mode B: Set of the savePromise's, by task number
  tasks,              \* mode B: every savePromise created, with its state
  disk,               \* mode B: per symbol folder, the task whose text each file holds
  awaited,            \* mode B: the Promise.all the SIGINT handler awaits
  stopQueue,          \* history: saveQueue when the stop signal arrived
  dispatched,         \* history: frames handed to the message handler
  transformed,        \* history: calls of processOrderbookData and results
  sinkLog,            \* history: records handed to the cache / the scheduler
  errorLog            \* history: console.error lines

connVars ==
  <<ws, sent, reconnectTimeout, statsInterval, midPriceInterval,
    processCount, updateCount, updatedCoins>>

metaVars == <<spotCoins, spotSymbolMapping>>

sinkVars == <<latestOrderbooks, saveQueue, tasks, disk>>

histVars == <<stopQueue, dispatched, transformed, sinkLog, errorLog>>

vars ==
  <<mode, phase, exited, isRunning, spotCoins, spotSymbolMapping, allMidsCache,
    midFetches, ws, sent, reconnectTimeout, statsInterval, midPriceInterval,
    processCount, updateCount, updatedCoins, latestOrderbooks, saveQueue, tasks,
    disk, awaited, stopQueue, dispatched, transformed, sinkLog, errorLog>>

Conns == 1..Len(ws)

\* the three files saveOrderbookToFile writes for a symbol
Files == {"json", "csv", "summary"}

\* the writeFile calls of a task: "idle" (not called yet), "started",
\* "written", "failed"
NoWrites == [f \in Files |-> "idle"]

\* outputDir with no symbol folder; a file that was never written holds 0
NoDisk == [d \in {} |-> [f \in Files |-> 0]]

NotAwaiting == [active |-> FALSE, set |-> {}]

Init ==
  /\ mode \in {"A", "B"}
  /\ phase = IF mode = "B" THEN "makeDir" ELSE "fetchMeta"
  /\ exited = FALSE
  /\ isRunning = TRUE
  /\ spotCoins = <<>>
  /\ spotSymbolMapping = MidsEmpty
  /\ allMidsCache = MidsEmpty
  /\ midFetches = 0
  /\ ws = <<>>
  /\ sent = <<>>
  /\ reconnectTimeout = <<>>
  /\ statsInterval = <<>>
  /\ midPriceInterval = <<>>
  /\ processCount = <<>>
  /\ updateCount = <<>>
  /\ updatedCoins = <<>>
  /\ latestOrderbooks = MidsEmpty
  /\ saveQueue = {}
  /\ tasks = <<>>
  /\ disk = NoDisk
  /\ awaited = NotAwaiting
  /\ stopQueue = {}
  /\ dispatched = <<>>
  /\ transformed = <<>>
  /\ sinkLog = <<>>
  /\ errorLog = <<>>

\* a console.error line: where it was printed and the symbol it names (the
\* lines of updateMidPrices and of ws.on('error') are not recorded)
ErrLine(src, sym) == [src |-> src, sym |-> sym]

\* ---------------------------------------------------------- connection
\* a faulty connect: the interval timers of the earlier calls are cancelled
ConnectWebSocketOwnTimers(timers) ==
  /\ ws' = Append(ws, "CONNECTING")
  /\ sent' = Append(sent, <<>>)
  /\ reconnectTimeout' = Append(timers, "unset")
  /\ statsInterval' = Append([j \in Conns |-> "cleared"], "active")
  /\ midPriceInterval' = Append([j \in Conns |-> "cleared"], "active")
  /\ processCount' = Append(processCount, 0)
  /\ updateCount' = Append(updateCount, 0)
  /\ updatedCoins' = Append(updatedCoins, {})

\* a faulty connect: two sockets are created by one call
ConnectWebSocketTwice(timers) ==
  /\ ws' = ws \o <<"CONNECTING", "CONNECTING">>
  /\ sent' = sent \o << <<>>, <<>> >>
  /\ reconnectTimeout' = timers \o <<"unset", "unset">>
  /\ statsInterval' = statsInterval \o <<"active", "active">>
  /\ midPriceInterval' = midPriceInterval \o <<"active", "active">>
  /\ processCount' = processCount \o <<0, 0>>
  /\ updateCount' = updateCount \o <<0, 0>>
  /\ updatedCoins' = updatedCoins \o <<{}, {}>>

\* connectWebSocket(spotCoins): a new socket, its counters, its two interval
\* timers and its own SIGINT listener (the listener is the call's index)
ConnectWebSocket(timers) ==
  /\ ws' = Append(ws, "CONNECTING")
  /\ sent' = Append(sent, <<>>)
  /\ reconnectTimeout' = Append(timers, "unset")
  /\ statsInterval' = Append(statsInterval, "active")
  /\ midPriceInterval' = Append(midPriceInterval, "active")
  /\ processCount' = Append(processCount, 0)
  /\ updateCount' = Append(updateCount, 0)
  /\ updatedCoins' = Append(updatedCoins, {})

\* a faulty open handler: the last symbol is not subscribed
SubscribeAllButLast(coins) ==
  [i \in 1..(Len(coins) - 1) |->
     [method |-> "subscribe", type |-> "l2Book", coin |-> coins[i]]]

\* the subscribe requests of the open handler, one per entry of spotCoins
SubscribeAll(coins) ==
  [i \in 1..Len(coins) |->
     [method |-> "subscribe", type |-> "l2Book", coin |-> coins[i]]]

\* a faulty close handler: no reconnect is scheduled
CloseTimerForgets(running, timer) == timer

\* ws.on('close'): schedule the reconnect if still running
CloseTimer(running, timer) == IF running THEN "pending" ELSE timer

\* ------------------------------------------------------------- startup
\* runWebSocketCollector() of mode B: await fs.mkdir(outputDir); a rejection
\* reaches the catch of the call, which prints it and calls process.exit(1)
MakeOutputDir ==
  /\ ~exited /\ phase = "makeDir"
  /\ \E ok \in BOOLEAN :
       /\ phase' = IF ok THEN "fetchMeta" ELSE "fatal"
       /\ errorLog' = IF ok THEN errorLog ELSE Append(errorLog, ErrLine("fatal", <<>>))
  /\ UNCHANGED <<mode, exited, isRunning, metaVars, allMidsCache, midFetches,
                 connVars, sinkVars, awaited, stopQueue, dispatched, transformed,
                 sinkLog>>

\* a faulty startup: run() goes on with an empty list
AfterMetadataGoesOn(coins) == "loadMids"

\* if (spotCoins.length === 0) { console.error(...); return; }
AfterMetadata(coins) == IF Len(coins) = 0 THEN "halted" ELSE "loadMids"

\* run(): await initSpotMetadata(); an empty list ends run()
FetchMeta ==
  /\ ~exited /\ phase = "fetchMeta"
  /\ \E r \in MetaResponses :
       LET coins == IF r.ok THEN SpotCoinsOf(r.universe) ELSE <<>>
       IN /\ spotCoins' = coins
          /\ spotSymbolMapping' =
               IF r.ok THEN SymbolMappingOf(r.universe) ELSE spotSymbolMapping
          /\ errorLog' =
               IF r.ok /\ Len(coins) > 0 THEN errorLog
               ELSE IF r.ok THEN Append(errorLog, ErrLine("noCoins", <<>>))
               ELSE errorLog \o <<ErrLine("metadata", <<>>), ErrLine("noCoins", <<>>)>>
          /\ phase' = AfterMetadata(coins)
  /\ UNCHANGED <<mode, exited, isRunning, allMidsCache, midFetches, connVars,
                 sinkVars, awaited, stopQueue, dispatched, transformed, sinkLog>>

\* run(): await updateMidPrices() (it never throws); then connectWebSocket
LoadMids ==
  /\ ~exited /\ phase = "loadMids"
  /\ \E r \in {"fail", "ok"} :
       allMidsCache' = IF r = "ok" THEN MidsA ELSE allMidsCache
  /\ phase' = "streaming"
  /\ ConnectWebSocket(reconnectTimeout)
  /\ UNCHANGED <<mode, exited, isRunning, metaVars, midFetches, sinkVars,
                 awaited, histVars>>

\* ------------------------------------------------------ socket events
\* ws.on('open'): subscribe to every coin of spotCoins
OnOpen(k) ==
  /\ ~exited /\ k \in Conns /\ ws[k] = "CONNECTING"
  /\ ws' = [ws EXCEPT ![k] = "OPEN"]
  /\ sent' = [sent EXCEPT ![k] = sent[k] \o SubscribeAll(spotCoins)]
  /\ UNCHANGED <<mode, phase, exited, isRunning, metaVars, allMidsCache,
                 midFetches, reconnectTimeout, statsInterval, midPriceInterval,
                 processCount, updateCount, updatedCoins, sinkVars, awaited,
                 histVars>>

\* The socket of call k reaches CLOSED: a failed connect, a transport loss, an
\* aborted connect or the end of the closing handshake.  ws.on('error'), when
\* it runs first, only prints; ws.on('close') runs.  The transport fails by
\* itself only while another connectWebSocket call fits the model.
OnClose(k) ==
  /\ ~exited /\ k \in Conns
  /\ \/ ws[k] \in {"CONNECTING", "OPEN"} /\ Len(ws) < MaxConns
     \/ ws[k] \in {"ABORTING", "CLOSING"}
  /\ ws' = [ws EXCEPT ![k] = "CLOSED"]
  /\ reconnectTimeout' =
       [reconnectTimeout EXCEPT ![k] = CloseTimer(isRunning, reconnectTimeout[k])]
  /\ UNCHANGED <<mode, phase, exited, isRunning, metaVars, allMidsCache,
                 midFetches, sent, statsInterval, midPriceInterval, processCount,
                 updateCount, updatedCoins, sinkVars, awaited, histVars>>

\* the reconnect timer of call k fires: connectWebSocket(spotCoins)
ReconnectFire(k) ==
  /\ ~exited /\ k \in Conns /\ reconnectTimeout[k] = "pending"
  /\ ConnectWebSocket([reconnectTimeout EXCEPT ![k] = "fired"])
  /\ UNCHANGED <<mode, phase, exited, isRunning, metaVars, allMidsCache,
                 midFetches, sinkVars, awaited, histVars>>

\* ------------------------------------------------------------- timers
\* the stats interval of call k fires: it clears itself when not running,
\* prints otherwise
StatsTick(k) ==
  /\ ~exited /\ k \in Conns /\ statsInterval[k] = "active"
  /\ statsInterval' =
       IF ~isRunning THEN [statsInterval EXCEPT ![k] = "cleared"] ELSE statsInterval
  /\ UNCHANGED <<mode, phase, exited, isRunning, metaVars, allMidsCache,
                 midFetches, ws, sent, reconnectTimeout, midPriceInterval,
                 processCount, updateCount, updatedCoins, sinkVars, awaited,
                 histVars>>

\* the mid-price interval of call k fires: it clears itself when not running,
\* starts updateMidPrices() otherwise
MidPriceTick(k) ==
  /\ ~exited /\ k \in Conns /\ midPriceInterval[k] = "active"
  /\ isRunning => midFetches < MaxFetch
  /\ midPriceInterval' =
       IF ~isRunning THEN [midPriceInterval EXCEPT ![k] = "cleared"]
       ELSE midPriceInterval
  /\ midFetches' = IF ~isRunning THEN midFetches ELSE midFetches + 1
  /\ UNCHANGED <<mode, phase, exited, isRunning, metaVars, allMidsCache, ws, sent,
                 reconnectTimeout, statsInterval, processCount, updateCount,
                 updatedCoins, sinkVars, awaited, histVars>>

\* updateMidPrices() of a timer settles: the cache is replaced, or kept on failure
MidFetchDone ==
  /\ ~exited /\ midFetches > 0
  /\ midFetches' = midFetches - 1
  /\ \E r \in {"fail", "ok"} :
       allMidsCache' = IF r = "ok" THEN MidsA ELSE allMidsCache
  /\ UNCHANGED <<mode, phase, exited, isRunning, metaVars, connVars, sinkVars,
                 awaited, histVars>>

\* a faulty filter: the '@' test is missing
MatchesAnySymbol(f) ==
  /\ f.parses
  /\ f.channel = "l2Book" /\ f.hasData
  /\ f.data.hasCoin

\* ----------------------------------------------------- message handler
\* the frame passes JSON.parse, the channel/data test and the '@' test
\* (a data without coin makes coin.startsWith throw: caught, frame ignored)
Matches(f) ==
  /\ f.parses
  /\ f.channel = "l2Book" /\ f.hasData
  /\ f.data.hasCoin
  /\ StartsWithAt(f.data.coin)

\* a faulty cache: an entry is written once and never replaced
CacheSetIfAbsent(cache, coinData) ==
  [c \in DOMAIN cache \cup {coinData.symbol} |->
     IF c \in DOMAIN cache THEN cache[c] ELSE coinData]

\* latestOrderbooks.set(coinData.symbol, coinData)
CacheSet(cache, coinData) ==
  [c \in DOMAIN cache \cup {coinData.symbol} |->
     IF c = coinData.symbol THEN coinData ELSE cache[c]]

\* a faulty admission: a task is refused while more than 100 are in flight
QueueAddBounded(queue, t) ==
  IF Cardinality(queue) > HighWater THEN queue ELSE queue \cup {t}

\* saveQueue.add(savePromise)
QueueAdd(queue, t) == queue \cup {t}

\* if (saveQueue.size > 100) { Promise.race(Array.from(saveQueue)); }
\* the race is created and dropped, nothing awaits it: the handler returns and
\* the next frame is dispatched whatever the size of the queue
DispatchWaits(queue) == Cardinality(queue) > HighWater /\ FALSE

\* ws.on('message') of call k for frame f; cap bounds the frames of a behaviour.
\* The status line printed after the hand-off throws when the first price is
\* not a string; the catch of the handler swallows it after the sink was fed.
OnMessage(k, f, cap) ==
  /\ ~exited /\ k \in Conns /\ ws[k] \in {"OPEN", "CLOSING"}
  /\ Len(dispatched) < cap
  /\ ~DispatchWaits(saveQueue)
  /\ dispatched' = Append(dispatched, [conn |-> k, frame |-> f, mids |-> allMidsCache])
  /\ IF Matches(f)
     THEN
       LET coin == f.data.coin
           coinData ==
             ProcessOrderbookData(coin, f.data, spotSymbolMapping, allMidsCache)
       IN /\ processCount' = [processCount EXCEPT ![k] = @ + 1]
          /\ transformed' = Append(transformed, [coin |-> coin, l2Data |-> f.data,
                                                 out |-> coinData])
          /\ IF coinData.ok
             THEN /\ sinkLog' = Append(sinkLog, coinData)
                  /\ errorLog' = errorLog
                  /\ IF mode = "A"
                     THEN /\ latestOrderbooks' = CacheSet(latestOrderbooks, coinData)
                          /\ UNCHANGED <<updateCount, updatedCoins, saveQueue, tasks,
                                         disk>>
                     ELSE /\ updatedCoins' =
                               [updatedCoins EXCEPT ![k] = @ \cup {coinData.displaySymbol}]
                          /\ updateCount' = [updateCount EXCEPT ![k] = @ + 1]
                          /\ tasks' = Append(tasks, [coinData |-> coinData,
                                                     state |-> "pending",
                                                     files |-> NoWrites])
                          /\ saveQueue' = QueueAdd(saveQueue, Len(tasks) + 1)
                          /\ UNCHANGED <<latestOrderbooks, disk>>
             ELSE /\ errorLog' = Append(errorLog, ErrLine("transform", coin))
                  /\ UNCHANGED <<sinkLog, updateCount, updatedCoins, sinkVars>>
     ELSE UNCHANGED <<processCount, updateCount, updatedCoins, transformed,
                      sinkLog, errorLog, sinkVars>>
  /\ UNCHANGED <<mode, phase, exited, isRunning, metaVars, allMidsCache,
                 midFetches, ws, sent, reconnectTimeout, statsInterval,
                 midPriceInterval, awaited, stopQueue>>

\* --------------------------------------------------- persistence tasks
Settled == {t \in 1..Len(tasks) : tasks[t].state # "pending"}

\* a faulty completion: the promise stays in the set
QueueDeleteNever(queue, t) == queue

\* .finally(() => saveQueue.delete(savePromise))
QueueDelete(queue, t) == queue \ {t}

\* a faulty drain: the handler awaits the first promise to settle, not all
DrainDoneAny(waiting, settledTasks) ==
  waiting.active /\ waiting.set \cap settledTasks # {}

\* the Promise.all of the SIGINT handler resolves once every promise of its
\* snapshot has settled; the handler then calls process.exit(0)
DrainDone(waiting, settledTasks) == waiting.active /\ waiting.set \subseteq settledTasks

\* the characters coinData.displaySymbol.replace(/[\/\\:*?"<>|]/g, '-') replaces
IllegalChars == {"/", "\\", ":", "*", "?", "\"", "<", ">", "|"}

\* safeFolderName: every illegal character of the display symbol becomes '-'
SafeFolderName(displaySymbol) ==
  [i \in 1..Len(displaySymbol) |->
     IF displaySymbol[i] \in IllegalChars THEN "-" ELSE displaySymbol[i]]

\* coinDir of task t
CoinDir(t) == SafeFolderName(tasks[t].coinData.displaySymbol)

\* fs.mkdir(coinDir, { recursive: true }): the folder exists afterwards
Mkdir(dsk, dir) ==
  [d \in DOMAIN dsk \cup {dir} |->
     IF d \in DOMAIN dsk THEN dsk[d] ELSE [f \in Files |-> 0]]

\* a faulty store: one write replaces the three files of the symbol together
DiskWriteAll(dsk, dir, f, t) == [dsk EXCEPT ![dir] = [g \in Files |-> t]]

\* a faulty store: a file keeps the text of the newest task that wrote it
DiskWriteNewest(dsk, dir, f, t) ==
  [dsk EXCEPT ![dir][f] = IF @ > t THEN @ ELSE t]

\* fs.writeFile(path, text) of task t completes: the file holds its text
DiskWrite(dsk, dir, f, t) == [dsk EXCEPT ![dir][f] = t]

\* a faulty completion: a failed write ends the process
RetireFatal(t, ok) ==
  /\ saveQueue' = QueueDelete(saveQueue, t)
  /\ errorLog' = IF ok THEN errorLog
                 ELSE Append(errorLog, ErrLine("save", tasks[t].coinData.displaySymbol))
  /\ exited' = (~ok \/ DrainDone(awaited, Settled \cup {t}))

\* The promise of task t settles: the catch of saveOrderbookToFile prints a
\* failure, finally() retires the promise, and in the same run of the
\* microtask queue a drained SIGINT handler exits the process.
Retire(t, ok) ==
  /\ saveQueue' = QueueDelete(saveQueue, t)
  /\ errorLog' = IF ok THEN errorLog
                 ELSE Append(errorLog, ErrLine("save", tasks[t].coinData.displaySymbol))
  /\ exited' = DrainDone(awaited, Settled \cup {t})

\* saveOrderbookToFile of a task that has not started its I/O runs to its end
\* with no other callback in between: the folder and the three files are
\* written, or mkdir fails and the failure is caught and printed.
TaskSettle(t, ok) ==
  /\ ~exited /\ t \in 1..Len(tasks)
  /\ tasks[t].state = "pending" /\ tasks[t].files = NoWrites
  /\ tasks' = [tasks EXCEPT ![t].state = IF ok THEN "done" ELSE "failed",
                            ![t].files = IF ok THEN [f \in Files |-> "written"] ELSE @]
  /\ disk' = IF ok THEN [Mkdir(disk, CoinDir(t)) EXCEPT ![CoinDir(t)] = [f \in Files |-> t]]
             ELSE disk
  /\ Retire(t, ok)
  /\ UNCHANGED <<mode, phase, isRunning, metaVars, allMidsCache, midFetches,
                 connVars, latestOrderbooks, awaited, stopQueue, dispatched,
                 transformed, sinkLog>>

\* await fs.mkdir(coinDir) of task t settles: the three writeFile calls are
\* started together, or the failure is caught and the task ends
MkdirDone(t, ok) ==
  /\ ~exited /\ t \in 1..Len(tasks)
  /\ tasks[t].state = "pending" /\ tasks[t].files = NoWrites
  /\ IF ok
     THEN /\ disk' = Mkdir(disk, CoinDir(t))
          /\ tasks' = [tasks EXCEPT ![t].files = [f \in Files |-> "started"]]
          /\ UNCHANGED <<saveQueue, errorLog, exited>>
     ELSE /\ tasks' = [tasks EXCEPT ![t].state = "failed"]
          /\ Retire(t, FALSE)
          /\ UNCHANGED disk
  /\ UNCHANGED <<mode, phase, isRunning, metaVars, allMidsCache, midFetches,
                 connVars, latestOrderbooks, awaited, stopQueue, dispatched,
                 transformed, sinkLog>>

\* One writeFile of task t completes (a write is taken as one step: the file
\* holds the whole text, or on failure what it held before).  Promise.all
\* resolves with the third success and rejects with the first failure; the
\* writes started with a failed one go on after the task has ended.
WriteDone(t, f, ok) ==
  /\ ~exited /\ t \in 1..Len(tasks) /\ tasks[t].files[f] = "started"
  /\ LET files2 == [tasks[t].files EXCEPT ![f] = IF ok THEN "written" ELSE "failed"]
         settles == /\ tasks[t].state = "pending"
                    /\ ~ok \/ \A g \in Files : files2[g] = "written"
     IN /\ disk' = IF ok THEN DiskWrite(disk, CoinDir(t), f, t) ELSE disk
        /\ tasks' = [tasks EXCEPT ![t].files = files2,
                                  ![t].state = IF ~settles THEN @
                                               ELSE IF ok THEN "done" ELSE "failed"]
        /\ IF settles THEN Retire(t, ok)
           ELSE UNCHANGED <<saveQueue, errorLog, exited>>
  /\ UNCHANGED <<mode, phase, isRunning, metaVars, allMidsCache, midFetches,
                 connVars, latestOrderbooks, awaited, stopQueue, dispatched,
                 transformed, sinkLog>>

\* ------------------------------------------------------------- SIGINT
\* ws.close() of a per-connection SIGINT listener
CloseCall(state) ==
  IF state = "CONNECTING" THEN "ABORTING"
  ELSE IF state = "OPEN" THEN "CLOSING" ELSE state

\* a faulty SIGINT listener: the reconnect timer is not cleared
ClearTimerForgets(timer) == timer

\* clearTimeout(reconnectTimeout)
ClearTimer(timer) == IF timer = "pending" THEN "cleared" ELSE timer

\* The stop signal: the global listener runs first.  Mode A exits at once.
\* Mode B exits at once when saveQueue is empty; otherwise it awaits the
\* promises that are in saveQueue now, and the per-connection listeners of
\* every connectWebSocket call run (clear both intervals and the reconnect
\* timer, close the socket).  A second signal would change nothing but add a
\* waiter on a later, larger snapshot; it is not modelled.
SigInt ==
  /\ ~exited /\ isRunning /\ phase \notin {"halted", "fatal"}
  /\ isRunning' = FALSE
  /\ stopQueue' = saveQueue
  /\ IF mode = "A" \/ saveQueue = {}
     THEN /\ exited' = TRUE
          /\ UNCHANGED <<awaited, ws, reconnectTimeout, statsInterval,
                         midPriceInterval>>
     ELSE /\ exited' = FALSE
          /\ awaited' = [active |-> TRUE, set |-> saveQueue]
          /\ statsInterval' = [k \in Conns |-> "cleared"]
          /\ midPriceInterval' = [k \in Conns |-> "cleared"]
          /\ reconnectTimeout' = [k \in Conns |-> ClearTimer(reconnectTimeout[k])]
          /\ ws' = [k \in Conns |-> CloseCall(ws[k])]
  /\ UNCHANGED <<mode, phase, metaVars, allMidsCache, midFetches, sent,
                 processCount, updateCount, updatedCoins, sinkVars, dispatched,
                 transformed, sinkLog, errorLog>>

\* ------------------------------------------------------ specifications
\* Every callback of the program, with the frames of LifeFrames.
Next ==
  \/ MakeOutputDir
  \/ FetchMeta
  \/ LoadMids
  \/ \E k \in 1..MaxConns : OnOpen(k)
  \/ \E k \in 1..MaxConns : OnClose(k)
  \/ \E k \in 1..MaxConns : ReconnectFire(k)
  \/ \E k \in 1..MaxConns : StatsTick(k)
  \/ \E k \in 1..MaxConns : MidPriceTick(k)
  \/ MidFetchDone
  \/ \E k \in 1..MaxConns, f \in LifeFrames : OnMessage(k, f, MaxMsgs)
  \/ \E t \in 1..MaxMsgs, ok \in BOOLEAN : TaskSettle(t, ok)
  \/ SigInt

Spec == Init /\ [][Next]_vars

\* The dispatch path alone, with every frame of Frames: startup, the socket
\* events and the message handler, while no stop signal arrives, no timer
\* fires and the writes of mode B are still outstanding.
NextDispatch ==
  \/ MakeOutputDir
  \/ FetchMeta
  \/ LoadMids
  \/ \E k \in 1..MaxConns : OnOpen(k)
  \/ \E k \in 1..MaxConns : OnClose(k)
  \/ \E k \in 1..MaxConns : ReconnectFire(k)
  \/ \E k \in 1..MaxConns, f \in Frames : OnMessage(k, f, MaxMsgs)

SpecDispatch == Init /\ [][NextDispatch]_vars

\* A burst of frames on one connection of mode B: the frames of one network
\* read are dispatched one after the other before any write has finished.
InitBurst == Init /\ mode = "B"

NextBurst ==
  \/ MakeOutputDir
  \/ FetchMeta
  \/ LoadMids
  \/ \E k \in 1..MaxConns : OnOpen(k)
  \/ \E k \in 1..MaxConns : OnMessage(k, F1A, MaxBurst)

SpecBurst == InitBurst /\ [][NextBurst]_vars

\* The life of the connections with the scheduling of the event loop: a
\* pending reconnect timer fires.  The interval callbacks, which touch
\* neither the sockets nor the reconnect timers, are left to Spec.
NextLive ==
  \/ MakeOutputDir
  \/ FetchMeta
  \/ LoadMids
  \/ \E k \in 1..MaxConns : OnOpen(k)
  \/ \E k \in 1..MaxConns : OnClose(k)
  \/ \E k \in 1..MaxConns : ReconnectFire(k)
  \/ \E k \in 1..MaxConns : OnMessage(k, F1A, MaxMsgs)
  \/ \E t \in 1..MaxMsgs, ok \in BOOLEAN : TaskSettle(t, ok)
  \/ SigInt

LiveSpec ==
  /\ Init /\ [][NextLive]_vars
  /\ WF_vars(\E k \in 1..MaxConns : ReconnectFire(k))

\* The persistence of mode B file by file, on one connection and with two
\* different snapshots of one symbol: every write of every task completes on
\* its own, in any order.
NextPersist ==
  \/ MakeOutputDir
  \/ FetchMeta
  \/ LoadMids
  \/ \E k \in 1..MaxConns : OnOpen(k)
  \/ \E k \in 1..MaxConns, f \in {F1A, F1B} : OnMessage(k, f, MaxMsgs)
  \/ \E t \in 1..MaxMsgs : MkdirDone(t, TRUE)
  \/ \E t \in 1..MaxMsgs, f \in Files : WriteDone(t, f, TRUE)

SpecPersist == InitBurst /\ [][NextPersist]_vars

\* The persistence of mode B with failing I/O: mkdir and every write of every
\* task completes or fails on its own, in any order.
NextFail ==
  \/ MakeOutputDir
  \/ FetchMeta
  \/ LoadMids
  \/ \E k \in 1..MaxConns : OnOpen(k)
  \/ \E k \in 1..MaxConns : OnMessage(k, F1A, MaxMsgs)
  \/ \E t \in 1..MaxMsgs, ok \in BOOLEAN : MkdirDone(t, ok)
  \/ \E t \in 1..MaxMsgs, f \in Files, ok \in BOOLEAN : WriteDone(t, f, ok)

SpecFail == InitBurst /\ [][NextFail]_vars

\* The transformer on the snapshots of TransformFrames, reached through the
\* message handler of either mode.
NextTransform ==
  \/ MakeOutputDir
  \/ FetchMeta
  \/ LoadMids
  \/ \E k \in 1..MaxConns : OnOpen(k)
  \/ \E k \in 1..MaxConns, f \in TransformFrames : OnMessage(k, f, MaxBooks)

SpecTransform == Init /\ [][NextTransform]_vars

\* ====================================================== claims C1..C10
\* ---- vocabulary of the claims
InFlight == Cardinality(saveQueue)

\* a step of the message handler, the frame it handled and its connection
DispatchStep == Len(dispatched') = Len(dispatched) + 1

AllLevels(f) ==
  IF f.data.hasLevels
  THEN UNION {SeqToSet(f.data.levels[i]) : i \in 1..Len(f.data.levels)}
  ELSE {}

TwoLevelLists(f) == f.data.hasLevels /\ Len(f.data.levels) = 2

\* an order-book frame for a spot symbol whose payload is as the feed defines it
ValidMatching(f) ==
  /\ Matches(f)
  /\ TwoLevelLists(f)
  /\ \A l \in AllLevels(f) : l.px.k = "dec" /\ l.sz.k = "dec"

\* text that is no JSON, or an order-book payload without its symbol, without
\* its two level lists, or with a level that lacks its price or its size
StructurallyInvalid(f) ==
  \/ ~f.parses
  \/ /\ f.channel = "l2Book" /\ f.hasData
     /\ \/ ~f.data.hasCoin
        \/ ~TwoLevelLists(f)
        \/ \E l \in AllLevels(f) : l.px.k = "undefined" \/ l.sz.k = "undefined"

\* a matching frame that lacks the level lists, or has a level without price
\* or size, or with a price or size that is no number
Malformed(f) ==
  /\ Matches(f)
  /\ \/ ~TwoLevelLists(f)
     \/ \E l \in AllLevels(f) : l.px.k # "dec" \/ l.sz.k # "dec"

\* the record the transformer makes of entry i of the dispatch history
RecordOf(i) ==
  ProcessOrderbookData(dispatched[i].frame.data.coin, dispatched[i].frame.data,
                       spotSymbolMapping, dispatched[i].mids)

\* C1: in mode B the in-flight count never exceeds 101, because once a
\* registration leaves more than 100 tasks in flight the dispatch path
\* registers no further task before one of them has completed.
C1_InFlightAtMost101 == mode = "B" => InFlight <= HighWater + 1

\* C2: in mode B, when the process has exited after a stop signal, every task
\* that was in the in-flight set when the signal was handled has completed
\* (its state is done or failed); none of them is pending at the exit.
C2_DrainedBeforeExit ==
  (mode = "B" /\ exited) =>
     \A t \in stopQueue : t \in 1..Len(tasks) /\ tasks[t].state \in {"done", "failed"}

\* C2 witness: the process has exited after draining two tasks that were in
\* flight at the signal, one of which failed.
C2_Witness ==
  /\ mode = "B" /\ exited
  /\ Cardinality(stopQueue) >= 2
  /\ \E t \in stopQueue : tasks[t].state = "failed"

\* C3: in mode B, when the process has exited after a stop signal the
\* in-flight set is empty, tasks accepted after the signal included.
C3_NothingInFlightAtExit == (mode = "B" /\ exited) => saveQueue = {}

\* C4: while no stop signal has been received, a closed socket is eventually
\* followed by a new connection attempt (or by a stop signal), and the
\* process exits only after a stop signal, never because a transport failed.
C4_ReconnectAfterClose ==
  /\ \A k \in 1..MaxConns :
       (k \in Conns /\ ws[k] = "CLOSED" /\ isRunning) ~> (~isRunning \/ Len(ws) > k)
  /\ [](exited => ~isRunning)
  /\ [](phase = "halted" => ws = <<>>)

\* C4 witness: the first socket failed before it opened, its reconnect timer
\* has fired and a second attempt exists, with no stop signal.
C4_Witness ==
  /\ isRunning /\ ~exited /\ Len(ws) >= 2
  /\ ws[1] = "CLOSED" /\ sent[1] = <<>> /\ reconnectTimeout[1] = "fired"

\* the requests sent on connection k are one l2Book subscribe for each symbol
\* of spotCoins and nothing else
SubscribedExactlyOnce(k) ==
  /\ \A c \in SeqToSet(spotCoins) :
       Cardinality({i \in 1..Len(sent[k]) :
                      sent[k][i] = [method |-> "subscribe", type |-> "l2Book",
                                    coin |-> c]}) = 1
  /\ Len(sent[k]) = Cardinality(SeqToSet(spotCoins))

\* C5: a connection that has opened (first connect or reconnect) has sent
\* exactly one l2Book subscribe per tracked symbol, a connection that has not
\* opened has sent nothing, and every connection on which a frame was
\* dispatched had sent them all.
C5_SubscribeOncePerSymbol ==
  /\ \A k \in Conns :
       /\ ws[k] \in {"OPEN", "CLOSING"} => SubscribedExactlyOnce(k)
       /\ ws[k] \in {"CONNECTING", "ABORTING"} => sent[k] = <<>>
       /\ ws[k] = "CLOSED" => sent[k] = <<>> \/ SubscribedExactlyOnce(k)
  /\ \A i \in 1..Len(dispatched) : SubscribedExactlyOnce(dispatched[i].conn)

\* C5 witness: a reconnect has opened with two tracked symbols and a frame
\* was dispatched on it.
C5_Witness ==
  /\ Len(ws) >= 2 /\ ws[2] = "OPEN" /\ Len(spotCoins) = 2
  /\ \E i \in 1..Len(dispatched) : dispatched[i].conn = 2

\* a timer of connection attempt k that can still fire
TimerLive(k) ==
  /\ ~exited
  /\ \/ reconnectTimeout[k] = "pending"
     \/ statsInterval[k] = "active"
     \/ midPriceInterval[k] = "active"

\* C6: once the stop signal has been handled no connection attempt starts, no
\* reconnect timer is pending (so none fires and the close of the shutdown
\* schedules none) and no stats or mid-price timer of any attempt is active.
C6_NoReconnectAfterStop ==
  /\ [](~isRunning => \A k \in Conns : ~TimerLive(k))
  /\ [][~isRunning => Len(ws') = Len(ws)]_vars

\* C6 witness: the stop signal found a reconnect timer pending and cancelled
\* it, and the process is still draining its writes.
C6_Witness ==
  /\ ~isRunning /\ ~exited
  /\ \E k \in Conns : ws[k] = "CLOSED" /\ reconnectTimeout[k] = "cleared"

C8_MalformedRejected ==
  [][(DispatchStep /\ Malformed(dispatched'[Len(dispatched')].frame)) =>
       /\ errorLog' = Append(errorLog,
            ErrLine("transform", dispatched'[Len(dispatched')].frame.data.coin))
       /\ sinkLog' = sinkLog
       /\ latestOrderbooks' = latestOrderbooks
       /\ saveQueue' = saveQueue /\ tasks' = tasks]_vars

\* The tracked universe of the handler is a symbol class: the symbols that
\* carry the spot prefix '@' (the handler does not look the symbol up in
\* spotCoins).
InTrackedUniverse(coin) == StartsWithAt(coin)

\* a frame of another channel, or an order-book frame for a symbol outside
\* the tracked universe
Dropped(f) ==
  /\ f.parses
  /\ \/ f.channel # "l2Book"
     \/ f.hasData /\ f.data.hasCoin /\ ~InTrackedUniverse(f.data.coin)

\* C9: a frame of another channel or for a symbol outside the tracked
\* universe is dropped with no effect: the transformer is not called, the
\* counters, the cache and the in-flight set are unchanged, no task is made.
C9_DroppedWithoutEffect ==
  [][(DispatchStep /\ Dropped(dispatched'[Len(dispatched')].frame)) =>
       UNCHANGED <<transformed, processCount, updateCount, updatedCoins,
                   latestOrderbooks, saveQueue, tasks, sinkLog, errorLog>>]_vars

\* C9 witness: after a stored frame, a frame for BTC or of the trades
\* channel was dispatched, and the counters still count one frame.
C9_Witness ==
  /\ Len(dispatched) = 2
  /\ dispatched[1].frame = F1A
  /\ dispatched[2].frame \in {FBtc, FTrades}
  /\ Len(transformed) = 1 /\ Len(sinkLog) = 1
  /\ \E k \in Conns : processCount[k] = 1

\* the entries of the dispatch history that produced a record for the symbol
GoodFor(coin) ==
  {i \in 1..Len(dispatched) :
     /\ Matches(dispatched[i].frame)
     /\ dispatched[i].frame.data.coin = coin
     /\ RecordOf(i).ok}

\* C10: in mode A the cache holds, for every symbol, the record of the most
\* recently delivered frame of that symbol that the transformer accepted,
\* and holds nothing for the other symbols; no entry is ever removed.
C10_CacheHoldsLatest ==
  mode = "A" =>
    /\ \A c \in {At1, At2, Btc} :
         IF GoodFor(c) = {} THEN c \notin DOMAIN latestOrderbooks
         ELSE /\ c \in DOMAIN latestOrderbooks
              /\ latestOrderbooks[c] =
                   RecordOf(CHOOSE i \in GoodFor(c) : \A j \in GoodFor(c) : j <= i)
    /\ DOMAIN latestOrderbooks \subseteq {At1, At2, Btc}

\* C10 witness: the entry of @1, written on the first connection, was
\* overwritten by a later frame of @1 on the second connection.
C10_Witness ==
  /\ mode = "A" /\ Len(dispatched) = 2
  /\ dispatched[1].frame = F1A /\ dispatched[1].conn = 1
  /\ dispatched[2].frame = F1B /\ dispatched[2].conn = 2
  /\ DOMAIN latestOrderbooks = {At1}
  /\ latestOrderbooks[At1].bids[1].price = Dec(198)

\* ====================================================== claims C11..C20
\* the number of calls of the transformer that returned a record
SuccessfulTransforms ==
  Cardinality({i \in 1..Len(transformed) : transformed[i].out.ok})

\* C11: in mode B every successfully transformed message has registered one
\* write task, whatever the in-flight count was: the tasks ever registered are
\* the records handed over, one task per record in hand-off order, and each
\* of them is in the in-flight set or has settled.
C11_HandOffNeverRejects ==
  mode = "B" =>
    /\ Len(tasks) = SuccessfulTransforms
    /\ [t \in 1..Len(tasks) |-> tasks[t].coinData] = sinkLog
    /\ saveQueue \cup Settled = 1..Len(tasks)

\* C11 witness: a task was registered while more than 100 tasks were in flight
C11_Witness ==
  /\ mode = "B" /\ InFlight > HighWater + 1
  /\ Len(tasks) = InFlight /\ SuccessfulTransforms = InFlight

\* task t fails in this step
FailsNow(t) == tasks[t].state = "pending" /\ tasks'[t].state = "failed"

\* the I/O that task u is waiting for can complete in the next step
CanProceed(u) ==
  /\ tasks[u].files = NoWrites => ENABLED MkdirDone(u, TRUE)
  /\ \A f \in Files : tasks[u].files[f] = "started" => ENABLED WriteDone(u, f, TRUE)

\* C12: in mode B a step in which a task fails prints one failure line that
\* names the task's symbol, retires that task and no other from the in-flight
\* set, leaves every other task as it was, and neither ends the process nor
\* touches the sockets; a failed task never runs again; every task still in
\* flight can go on, whatever has failed before.
C12_WriteFailureContained ==
  /\ [][\A t \in 1..Len(tasks) :
          /\ FailsNow(t) =>
               /\ errorLog' =
                    Append(errorLog, ErrLine("save", tasks[t].coinData.displaySymbol))
               /\ saveQueue' = saveQueue \ {t}
               /\ \A u \in 1..Len(tasks) \ {t} : tasks'[u] = tasks[u]
               /\ isRunning => ~exited'
               /\ UNCHANGED <<ws, isRunning, phase, reconnectTimeout>>
          /\ tasks[t].state = "failed" =>
               /\ tasks'[t].state = "failed"
               /\ t \notin saveQueue'
               /\ tasks'[t].coinData = tasks[t].coinData]_vars
  /\ [](mode = "B" /\ ~exited =>
          \A u \in 1..Len(tasks) : tasks[u].state = "pending" => CanProceed(u))

\* C12 witness: a write of the first task has failed while another of its
\* writes was still going on, the failure is printed, and the task registered
\* after it is done; the process runs and the socket is open.
C12_Witness ==
  /\ mode = "B" /\ ~exited /\ isRunning /\ Len(tasks) >= 2
  /\ tasks[1].state = "failed" /\ tasks[2].state = "done"
  /\ \E f \in Files : tasks[1].files[f] = "failed"
  /\ \E f \in Files : tasks[1].files[f] = "started"
  /\ \E i \in 1..Len(errorLog) : errorLog[i].src = "save"
  /\ \E k \in Conns : ws[k] = "OPEN"

\* ---- vocabulary of the transformer claims
\* the calls of the transformer that returned a record
Accepted == {i \in 1..Len(transformed) : transformed[i].out.ok}

\* the two sides call i received
BidsIn(i) == transformed[i].l2Data.levels[1]

AsksIn(i) == transformed[i].l2Data.levels[2]

\* outSide is the first min(TopN, length) levels of inSide, in their order,
\* with ranks 1, 2, ...
IsTopOf(outSide, inSide) ==
  /\ Len(outSide) = IF Len(inSide) <= TopN THEN Len(inSide) ELSE TopN
  /\ \A j \in 1..Len(outSide) :
       /\ outSide[j].level = j
       /\ outSide[j].price = inSide[j].px
       /\ outSide[j].size = inSide[j].sz

\* C13: each side of an accepted record is the first min(10, length) levels
\* of the input side in feed order with ranks 1..k; hence at most 10 levels
\* and strictly increasing ranks.
C13_TopNInFeedOrder ==
  \A i \in Accepted :
    LET out == transformed[i].out
    IN /\ IsTopOf(out.bids, BidsIn(i)) /\ IsTopOf(out.asks, AsksIn(i))
       /\ Len(out.bids) <= TopN /\ Len(out.asks) <= TopN
       /\ \A j \in 1..(Len(out.bids) - 1) : out.bids[j].level < out.bids[j + 1].level
       /\ \A j \in 1..(Len(out.asks) - 1) : out.asks[j].level < out.asks[j + 1].level

\* C13 witness: an accepted snapshot whose bid side has more than 10 levels
\* that are not sorted by price, and whose ask side has fewer.
C13_Witness ==
  \E i \in Accepted :
    /\ Len(BidsIn(i)) > TopN /\ Len(transformed[i].out.bids) = TopN
    /\ BidsIn(i)[1].px.n < BidsIn(i)[2].px.n /\ BidsIn(i)[2].px.n > BidsIn(i)[3].px.n
    /\ Len(AsksIn(i)) \in 1..(TopN - 1)

\* every size of the side is a non-negative number
NonNegativeSizes(side) ==
  \A j \in 1..Len(side) : side[j].sz.k = "dec" /\ side[j].sz.n >= 0

\* the decimals needed to write every size of the side, four at least
SizeDecimals(side) ==
  LET ds == {4} \cup {side[j].sz.d : j \in 1..Len(side)}
  IN CHOOSE e \in ds : \A x \in ds : x <= e

\* the sum of the sizes of ranks 1..r of the side, in units of 10^-e
RECURSIVE SumSizes(_, _, _)
SumSizes(side, r, e) ==
  IF r = 0 THEN 0
  ELSE SumSizes(side, r - 1, e) + side[r].sz.n * Pow10(e - side[r].sz.d)

\* the cumulative sizes of outSide never decrease
NonDecreasing(outSide) ==
  \A j \in 1..(Len(outSide) - 1) :
    outSide[j].cumulative.n <= outSide[j + 1].cumulative.n

\* every cumulative size of outSide is the sum of the sizes of inSide up to
\* its rank, to the nearest 0.0001
CumulativeRounded(outSide, inSide) ==
  LET e == SizeDecimals(inSide)
  IN \A r \in 1..Len(outSide) :
       LET c == outSide[r].cumulative
           diff == c.n * Pow10(e - 4) - SumSizes(inSide, r, e)
       IN /\ c.k = "dec" /\ c.d = 4
          /\ 2 * diff <= Pow10(e - 4) /\ 2 * diff >= -Pow10(e - 4)

\* every cumulative size of outSide is exactly the sum of the sizes of inSide
\* up to its rank
CumulativeExact(outSide, inSide) ==
  LET e == SizeDecimals(inSide)
  IN \A r \in 1..Len(outSide) :
       /\ outSide[r].cumulative.k = "dec"
       /\ outSide[r].cumulative.n * Pow10(e - 4) = SumSizes(inSide, r, e)

\* C14 as stated: for an accepted snapshot with non-negative sizes the
\* cumulative size at rank r of a side equals the sum of the sizes of ranks
\* 1..r of that side, and the cumulative sizes of a side never decrease.
C14_CumulativeIsExactSum ==
  \A i \in Accepted :
    (NonNegativeSizes(BidsIn(i)) /\ NonNegativeSizes(AsksIn(i))) =>
      LET out == transformed[i].out
      IN /\ CumulativeExact(out.bids, BidsIn(i)) /\ NonDecreasing(out.bids)
         /\ CumulativeExact(out.asks, AsksIn(i)) /\ NonDecreasing(out.asks)

\* C14 (amended): for an accepted snapshot with non-negative sizes the
\* cumulative size at rank r of a side is the sum of the sizes of ranks 1..r
\* of that side only, written with 4 decimals (rounded to the nearest 0.0001),
\* and the cumulative sizes of a side never decrease.
C14_CumulativeIsRoundedSum ==
  \A i \in Accepted :
    (NonNegativeSizes(BidsIn(i)) /\ NonNegativeSizes(AsksIn(i))) =>
      LET out == transformed[i].out
      IN /\ CumulativeRounded(out.bids, BidsIn(i)) /\ NonDecreasing(out.bids)
         /\ CumulativeRounded(out.asks, AsksIn(i)) /\ NonDecreasing(out.asks)

\* C14 witness: an accepted snapshot with several bids of positive size whose
\* asks have sizes of five decimals: the second ask's cumulative size is
\* written 0.0000 although the sum is 0.00004, the third's 0.0001.
C14_Witness ==
  \E i \in Accepted :
    /\ NonNegativeSizes(BidsIn(i)) /\ NonNegativeSizes(AsksIn(i))
    /\ Len(BidsIn(i)) >= 2 /\ BidsIn(i)[1].sz.n > 0
    /\ Len(AsksIn(i)) = 3 /\ AsksIn(i)[2].sz.d = 5
    /\ transformed[i].out.asks[2].cumulative = DecE(0, 4)
    /\ transformed[i].out.asks[3].cumulative = DecE(1, 4)

\* the first price of a side in units of 10^-8, 0 for an empty side
FirstPrice(side) ==
  IF Len(side) > 0 THEN side[1].px.n * Pow10(8 - side[1].px.d) ELSE 0

\* the first price of each side, if any, is a number
NumericBest(i) ==
  /\ Len(BidsIn(i)) > 0 => BidsIn(i)[1].px.k = "dec"
  /\ Len(AsksIn(i)) > 0 => AsksIn(i)[1].px.k = "dec"

\* p is (ask - bid) / bid * 100 written with 4 decimals, to the nearest
\* 0.0001 (bid and ask in units of 10^-8, bid > 0)
IsSpreadPercent(p, bid, ask) ==
  LET b == bid \div 1000000
      a == ask \div 1000000
      diff == p.n * b - (a - b) * 1000000
  IN /\ p.k = "dec" /\ p.d = 4
     /\ 2 * diff <= b /\ 2 * diff >= -b

\* the spread of the record is first ask - first bid (0 for an empty side),
\* and with a positive best bid its percentage is the rounded quotient
SpreadOfBest(i) ==
  LET out == transformed[i].out
      bid == FirstPrice(BidsIn(i))
      ask == FirstPrice(AsksIn(i))
  IN /\ out.spread = DecE(ask - bid, 8)
     /\ bid > 0 => /\ IsSpreadPercent(out.spreadPercentage[1], bid, ask)
                   /\ Len(out.spreadPercentage) >= 1

\* C15 as stated: best bid and ask are the first element of their side (0 if
\* empty); with bestBid > 0 the record's spreadPercent is the quotient
\* rounded to 4 decimals, with bestBid <= 0 it is exactly the string "0".
C15_ZeroPercentIsString0 ==
  \A i \in Accepted :
    NumericBest(i) =>
      /\ SpreadOfBest(i)
      /\ FirstPrice(BidsIn(i)) <= 0 => transformed[i].out.spreadPercentage = <<Zero>>

\* C15 (amended): best bid and ask are the first element of their side (0 if
\* empty); the record's spreadPercent always ends with the percent sign: with
\* bestBid > 0 it is the quotient rounded to 4 decimals followed by "%", with
\* bestBid <= 0 it is exactly the string "0%".
C15_SpreadPercentWithSign ==
  \A i \in Accepted :
    NumericBest(i) =>
      /\ SpreadOfBest(i)
      /\ Len(transformed[i].out.spreadPercentage) = 2
      /\ transformed[i].out.spreadPercentage[2] = "%"
      /\ FirstPrice(BidsIn(i)) <= 0 =>
           transformed[i].out.spreadPercentage = <<Zero, "%">>

\* C15 witness: an accepted snapshot with no bid and several asks, whose
\* record holds the spread of the first ask and the percentage "0%".
C15_Witness ==
  \E i \in Accepted :
    /\ Len(BidsIn(i)) = 0 /\ Len(AsksIn(i)) >= 2
    /\ transformed[i].out.spread = DecE(FirstPrice(AsksIn(i)), 8)
    /\ transformed[i].out.spread.n > 0
    /\ transformed[i].out.spreadPercentage = <<Zero, "%">>

\* ---- vocabulary of the startup claim
\* initSpotMetadata() has returned
MetaFetched == phase \in {"loadMids", "streaming", "halted"}

\* a console.error line of the given origin was printed
HasLine(src) == \E i \in 1..Len(errorLog) : errorLog[i].src = src

\* no connectWebSocket call was made: no socket, request or timer exists
NothingStarted ==
  /\ ws = <<>> /\ sent = <<>> /\ reconnectTimeout = <<>>
  /\ statsInterval = <<>> /\ midPriceInterval = <<>>

\* the program has stopped: run() returned early or the process was ended
Stopped == phase \in {"halted", "fatal"} \/ exited

\* a failed metadata fetch or an empty universe halts the program before any
\* socket, request or timer exists
HaltsBeforeStreaming ==
  /\ (MetaFetched /\ spotCoins = <<>>) => (phase = "halted" /\ NothingStarted)
  /\ HasLine("metadata") => phase = "halted"
  /\ phase = "halted" => (spotCoins = <<>> /\ HasLine("noCoins") /\ NothingStarted)

\* C16 as stated: a failed metadata fetch or an empty universe halts the
\* program before streaming, and nothing else but a stop signal stops it.
C16_OnlyMetadataFailureStops ==
  /\ HaltsBeforeStreaming
  /\ (Stopped /\ isRunning) => (phase = "halted" /\ spotCoins = <<>>)

\* C16 (amended): a failed metadata fetch or an empty universe halts the
\* program before streaming; the only other failure that stops the program
\* is, in mode B, a failure to create the output directory at startup, before
\* the metadata fetch; no failure after startup stops it.
C16_OnlyStartupFailuresStop ==
  /\ HaltsBeforeStreaming
  /\ (Stopped /\ isRunning) =>
       \/ phase = "halted" /\ spotCoins = <<>>
       \/ /\ mode = "B" /\ phase = "fatal" /\ ~exited
          /\ errorLog = <<ErrLine("fatal", <<>>)>> /\ NothingStarted

\* C16 witness: in mode B the output directory was made, the metadata fetch
\* failed, and the program has halted with no socket, request or timer.
C16_Witness ==
  /\ mode = "B" /\ phase = "halted" /\ HasLine("metadata")
  /\ ~HasLine("fatal") /\ NothingStarted /\ isRunning /\ ~exited

\* the tasks that were registered and have not completed
Unfinished == {t \in 1..Len(tasks) : tasks[t].state = "pending"}

\* C17: in mode B the in-flight set is in every state the set of the tasks
\* registered and not yet completed, so its size is the number of unfinished
\* tasks; a task enters the set only in the dispatch step that creates it,
\* leaves it only in the step in which it settles (done or failed), and a
\* settled task never becomes pending or enters the set again.
C17_InFlightIsUnfinished ==
  /\ [](mode = "B" => (saveQueue = Unfinished /\ InFlight = Cardinality(Unfinished)))
  /\ [][/\ \A t \in saveQueue' \ saveQueue :
             /\ DispatchStep
             /\ t = Len(tasks') /\ Len(tasks') = Len(tasks) + 1
        /\ \A t \in saveQueue \ saveQueue' :
             tasks[t].state = "pending" /\ tasks'[t].state \in {"done", "failed"}
        /\ \A t \in 1..Len(tasks) :
             tasks[t].state # "pending" =>
               (tasks'[t].state = tasks[t].state /\ t \notin saveQueue')]_vars

\* C17 witness: the first task has failed and left the set while one of its
\* writes is still going on, the second task is in flight and is the set.
C17_Witness ==
  /\ mode = "B" /\ Len(tasks) = 2 /\ saveQueue = {2}
  /\ tasks[1].state = "failed" /\ tasks[2].state = "pending"
  /\ \E f \in Files : tasks[1].files[f] = "started"
  /\ \E f \in Files : tasks[2].files[f] = "written"

\* tasks t and u carry snapshots of the same symbol
SameSymbol(t, u) == tasks[t].coinData.symbol = tasks[u].coinData.symbol

\* C18: in mode B nothing orders or discards the tasks of one symbol: every
\* write that was started can complete in the next step whatever the other
\* tasks are doing, and a write that completes puts its task's text in the
\* file whatever the file held, the text of a later task included.  (The
\* execution the claim speaks of is the state C18_Witness.)
C18_SameSymbolTasksUnordered ==
  /\ [](mode = "B" /\ ~exited =>
          \A t \in 1..Len(tasks) :
            /\ (tasks[t].state = "pending" /\ tasks[t].files = NoWrites) =>
                 ENABLED MkdirDone(t, TRUE)
            /\ \A f \in Files :
                 tasks[t].files[f] = "started" => ENABLED WriteDone(t, f, TRUE))
  /\ [][\A t \in 1..Len(tasks) : \A f \in Files :
          (tasks[t].files[f] = "started" /\ tasks'[t].files[f] = "written") =>
             disk'[CoinDir(t)][f] = t]_vars

\* C18 witness: two tasks of one symbol with different snapshots were in
\* flight together, both are done, the later one wrote its files first, and
\* every file of the symbol holds the text of the earlier task.
C18_Witness ==
  /\ mode = "B" /\ Len(tasks) >= 2
  /\ SameSymbol(1, 2) /\ tasks[1].coinData # tasks[2].coinData
  /\ tasks[1].state = "done" /\ tasks[2].state = "done"
  /\ CoinDir(1) \in DOMAIN disk
  /\ \A f \in Files : disk[CoinDir(1)][f] = 1

\* ---- vocabulary of the lifecycle claims
\* the sockets that are connecting or open
LiveSockets == {k \in Conns : ws[k] \in {"CONNECTING", "OPEN"}}

\* the reconnect timers that are scheduled and have not fired
PendingReconnects == {k \in Conns : reconnectTimeout[k] = "pending"}

\* C19: in every state the sockets that are connecting or open and the
\* pending reconnect timers are at most one in all; a reconnect timer becomes
\* pending only in the step in which the socket of the latest connectWebSocket
\* call closes, and only if that call has scheduled none before.
C19_OneLifecycle ==
  /\ [](Cardinality(LiveSockets) + Cardinality(PendingReconnects) <= 1)
  /\ [][\A k \in Conns :
          (reconnectTimeout[k] # "pending" /\ reconnectTimeout'[k] = "pending") =>
             /\ k = Len(ws) /\ Len(ws') = Len(ws)
             /\ ws[k] # "CLOSED" /\ ws'[k] = "CLOSED"
             /\ reconnectTimeout[k] = "unset"]_vars

\* C19 witness: the first socket was open and has closed, its reconnect
\* timer has fired, and the socket of the second call is open.
C19_Witness ==
  /\ isRunning /\ Len(ws) = 2
  /\ ws[1] = "CLOSED" /\ sent[1] # <<>> /\ reconnectTimeout[1] = "fired"
  /\ ws[2] = "OPEN" /\ reconnectTimeout[2] = "unset"

\* the reconnect attempts made so far: the reconnect timers that have fired
ReconnectAttempts == Cardinality({k \in Conns : reconnectTimeout[k] = "fired"})

ActiveStatsTimers == {k \in Conns : statsInterval[k] = "active"}

ActiveMidPriceTimers == {k \in Conns : midPriceInterval[k] = "active"}

\* C20: while no stop signal has been received, after k reconnect attempts
\* there are k + 1 connectWebSocket calls and the stats timer and the
\* mid-price timer of every one of them is active, those of the closed
\* connections included (k + 1 of each), and each of them can fire next (a
\* mid-price timer as long as the model lets another refresh start).
C20_TimersAccumulate ==
  (isRunning /\ ~exited /\ phase = "streaming") =>
     /\ Len(ws) = ReconnectAttempts + 1
     /\ ActiveStatsTimers = Conns /\ ActiveMidPriceTimers = Conns
     /\ Cardinality(ActiveStatsTimers) = ReconnectAttempts + 1
     /\ Cardinality(ActiveMidPriceTimers) = ReconnectAttempts + 1
     /\ \A k \in Conns :
          /\ ENABLED StatsTick(k)
          /\ midFetches < MaxFetch => ENABLED MidPriceTick(k)

\* C20 witness: after one reconnect attempt the first connection is closed,
\* both connections own an active stats timer and an active mid-price timer,
\* and a refresh started by one of them is in flight.
C20_Witness ==
  /\ isRunning /\ ~exited /\ ReconnectAttempts = 1 /\ Len(ws) = 2
  /\ ws[1] = "CLOSED"
  /\ Cardinality(ActiveStatsTimers) = 2 /\ Cardinality(ActiveMidPriceTimers) = 2
  /\ midFetches > 0

\* ====================================================== claim C21
\* C21: in mode B the three files of a task are written by three writes that
\* are started together and are independent: in every state a task has
\* started all three or none, each started write can complete in the next
\* step in any order, and the step in which one completes changes that file
\* only, leaving the other two files of the symbol and the other two writes
\* of the task as they were.  (The state the claim speaks of is C21_Witness.)
C21_ThreeIndependentWrites ==
  /\ [](mode = "B" /\ ~exited =>
          \A t \in 1..Len(tasks) :
            /\ tasks[t].files = NoWrites \/ \A f \in Files : tasks[t].files[f] # "idle"
            /\ \A f \in Files :
                 tasks[t].files[f] = "started" => ENABLED WriteDone(t, f, TRUE))
  /\ [][\A t \in 1..Len(tasks) : \A f \in Files :
          (tasks[t].files[f] = "started" /\ tasks'[t].files[f] = "written") =>
             /\ disk'[CoinDir(t)][f] = t
             /\ \A g \in Files \ {f} :
                  /\ disk'[CoinDir(t)][g] = disk[CoinDir(t)][g]
                  /\ tasks'[t].files[g] = tasks[t].files[g]]_vars

\* C21 witness: two tasks of one symbol with different snapshots overlapped,
\* every task is done, and the files of the symbol hold the text of the
\* first task in one file and of the second task in another.
C21_Witness ==
  /\ mode = "B" /\ Len(tasks) >= 2
  /\ \A t \in 1..Len(tasks) : tasks[t].state = "done"
  /\ SameSymbol(1, 2) /\ tasks[1].coinData # tasks[2].coinData
  /\ CoinDir(1) \in DOMAIN disk
  /\ \E f, g \in Files : disk[CoinDir(1)][f] = 1 /\ disk[CoinDir(1)][g] = 2

====
